---- MODULE Spec2Model ----
(***************************************************************************)
(* Model of the query-interpretation and title-matching code of            *)
(* stremio-ai-companion:                                                   *)
(*   app/services/tmdb.py   TMDBService.search_movie / search_tv and the   *)
(*                          request plumbing under them                    *)
(*   app/utils/parsing.py   parse_movie_with_year, parse_title_with_year,  *)
(*                          is_specific_title_query, detect_user_intent    *)
(*   app/services/__init__.py                                              *)
(*                          get_next_tuesday, get_tuesday_to_tuesday_ttl   *)
(* Strings are sequences of one-character strings, so that lower(),        *)
(* strip(), the regular expressions and difflib's ratio are computed       *)
(* character by character.                                                 *)
(***************************************************************************)
EXTENDS Integers, Sequences, FiniteSets, TLC

VARIABLES
    title,      \* the title argument of search_movie / search_tv
    page,       \* what the provider holds for that title, in provider order
    pc,         \* "ready" | "returned" | "raised"
    endpoint,   \* endpoint of the last search call ("none" before it)
    outcome,    \* how the provider answered the last call
    sent,       \* client.get() calls issued by the last search call
    scored,     \* data["results"] after the scan: every record carries _score
    matches,    \* the list `matches` after the scan (references into scored)
    returned,   \* the returned list (references into scored)
    search,     \* the text argument of the parsing functions
    typed,      \* number of pieces the text was put together from
    ret,        \* the last parsing call and its return value
    prev,       \* what the search call before the last one returned
    clock,      \* datetime.now(timezone.utc)
    cal         \* the last call of a Tuesday function and its return value

vars == <<title, page, pc, endpoint, outcome, sent, scored, matches,
          returned, search, typed, ret, prev, clock, cal>>

parseVars == <<search, typed, ret>>

timeVars == <<clock, cal>>

(***************************************************************************)
(* Bounds of the model.                                                    *)
(***************************************************************************)
MaxResults == 3

MaxTopResults == 6

(***************************************************************************)
(* Characters and str methods.                                             *)
(***************************************************************************)
UpperToLower ==
    [A |-> "a", B |-> "b", C |-> "c", D |-> "d", E |-> "e", F |-> "f",
     G |-> "g", H |-> "h", I |-> "i", J |-> "j", K |-> "k", L |-> "l",
     M |-> "m", N |-> "n", O |-> "o", P |-> "p", Q |-> "q", R |-> "r",
     S |-> "s", T |-> "t", U |-> "u", V |-> "v", W |-> "w", X |-> "x",
     Y |-> "y", Z |-> "z"]

LowerChar(c) == IF c \in DOMAIN UpperToLower THEN UpperToLower[c] ELSE c

\* a string literal as the sequence of its characters
Chars(w) == [i \in 1..Len(w) |-> SubSeq(w, i, i)]

\* str.lower()
Lower(s) == [i \in 1..Len(s) |-> LowerChar(s[i])]

(***************************************************************************)
(* difflib.SequenceMatcher(None, a, b).ratio(): 2*M/T, M the characters in *)
(* the matching blocks found by repeatedly taking the longest common block *)
(* (earliest in a, then earliest in b) and recursing on both sides of it.  *)
(* Scores are exact fractions [num, den].                                  *)
(***************************************************************************)
Frac(n, d) == [num |-> n, den |-> d]

FracGeq(x, y) == x.num * y.den >= y.num * x.den

FracEq(x, y) == x.num * y.den = y.num * x.den

One == Frac(1, 1)

BlockAt(a, i, b, j, k) == \A d \in 0..(k - 1) : a[i + d] = b[j + d]

\* find_longest_match: <<i, j, k>>, the longest block a[i..i+k-1] = b[j..j+k-1]
\* inside the two windows, the earliest in a and then the earliest in b
LongestMatch(a, alo, ahi, b, blo, bhi) ==
    LET StartsA(k) == alo..(ahi - k + 1)
        StartsB(k) == blo..(bhi - k + 1)
        lens == {k \in 1..(ahi - alo + 1) :
                    \E i \in StartsA(k), j \in StartsB(k) : BlockAt(a, i, b, j, k)}
        best == CHOOSE k \in lens : \A o \in lens : o <= k
        HasB(i) == \E j \in StartsB(best) : BlockAt(a, i, b, j, best)
        besti == CHOOSE i \in StartsA(best) :
                    HasB(i) /\ \A o \in alo..(i - 1) : ~HasB(o)
        bestj == CHOOSE j \in StartsB(best) :
                    /\ BlockAt(a, besti, b, j, best)
                    /\ \A o \in blo..(j - 1) : ~BlockAt(a, besti, b, o, best)
    IN  IF lens = {} THEN <<alo, blo, 0>> ELSE <<besti, bestj, best>>

RECURSIVE MatchedChars(_, _, _, _, _, _)
MatchedChars(a, alo, ahi, b, blo, bhi) ==
    IF alo > ahi \/ blo > bhi THEN 0
    ELSE LET m == LongestMatch(a, alo, ahi, b, blo, bhi)
         IN  IF m[3] = 0 THEN 0
             ELSE m[3]
                  + MatchedChars(a, alo, m[1] - 1, b, blo, m[2] - 1)
                  + MatchedChars(a, m[1] + m[3], ahi, b, m[2] + m[3], bhi)

Ratio(a, b) ==
    IF Len(a) + Len(b) = 0 THEN One
    ELSE Frac(2 * MatchedChars(a, 1, Len(a), b, 1, Len(b)), Len(a) + Len(b))

(***************************************************************************)
(* The provider.  An item is [id, named, text]: the record the endpoint    *)
(* renders carries the text under "title" (search/movie) or "name"         *)
(* (search/tv), or carries no display name at all when named is FALSE.     *)
(***************************************************************************)
Titles == {Chars("aBc")}

Names == {Chars("AbC"), Chars("abcd"), Chars("ab"), Chars("a"), Chars("x")}

TopNames == {Chars("AbC"), Chars("ab")}

Outcomes == {"ok", "timeout", "status", "error"}

RenderRecord(item, field) ==
    IF item.named THEN (field :> item.text) @@ [id |-> item.id]
    ELSE [id |-> item.id]

\* the key under which the provider stores the display name: "title" in the
\* movie results, "name" in the series results
ProviderField(ep) == IF ep = "search/movie" THEN "title" ELSE "name"

\* dict.get(key, default)
Get(res, key, default) == IF key \in DOMAIN res THEN res[key] ELSE default

UsedIds(p) == {p[i].id : i \in 1..Len(p)}

\* identifiers are only ever compared for equality, so a new item either
\* repeats an identifier already on the page or takes the next unused one
NextIds(p) == 1..(Cardinality(UsedIds(p)) + 1)

(***************************************************************************)
(* TMDBService._execute_request / _make_request.  The result is the value  *)
(* handed back (data), the number of client.get() calls made (gets) and    *)
(* whether an exception left the method (raised).                          *)
(***************************************************************************)
None == [isNone |-> TRUE]

IsNone(d) == "isNone" \in DOMAIN d

\* mutant: the handler for any other exception is missing
ExecuteRequestNarrowCatch(o, body) ==
    CASE o = "ok"      -> [data |-> body, gets |-> 1, raised |-> FALSE]
      [] o = "timeout" -> [data |-> None, gets |-> 1, raised |-> FALSE]
      [] o = "status"  -> [data |-> None, gets |-> 1, raised |-> FALSE]
      [] OTHER         -> [data |-> None, gets |-> 1, raised |-> TRUE]

ExecuteRequest(o, body) ==
    CASE o = "ok"      -> [data |-> body, gets |-> 1, raised |-> FALSE]
      [] o = "timeout" -> [data |-> None, gets |-> 1, raised |-> FALSE]
      [] o = "status"  -> [data |-> None, gets |-> 1, raised |-> FALSE]
      [] OTHER         -> [data |-> None, gets |-> 1, raised |-> FALSE]

MakeRequest(o, body) == ExecuteRequest(o, body)

(***************************************************************************)
(* The matcher of search_movie / search_tv.                                *)
(***************************************************************************)
FUZZY_MATCH_THRESHOLD == Frac(85, 100)

RELAXED_MATCH_THRESHOLD == Frac(65, 100)

TOP_RESULT_THRESHOLD == Frac(40, 100)

TOP_MATCHES == 5

\* ratio() of every lowered (title, name) pair of the pools, computed once
RatioTable ==
    [a \in {Lower(t) : t \in Titles},
     b \in {Lower(n) : n \in Names \cup TopNames \cup {<<>>}} |-> Ratio(a, b)]

\* res_title.lower() == title.lower()
IsExact(res, field, t) == Lower(Get(res, field, <<>>)) = Lower(t)

\* the value the scan stores in res["_score"]
ScoreOf(res, field, t) ==
    IF IsExact(res, field, t) THEN One
    ELSE LET a == Lower(t)
             b == Lower(Get(res, field, <<>>))
         IN  IF <<a, b>> \in DOMAIN RatioTable THEN RatioTable[a, b]
             ELSE Ratio(a, b)

\* mutant: the 0.40 rescue applies at every index, not only to the first
KeepsRescueAnywhere(index, exact, score) ==
    IF exact THEN TRUE
    ELSE IF FracGeq(score, Frac(85, 100)) THEN TRUE
    ELSE IF FracGeq(score, Frac(65, 100)) THEN TRUE
    ELSE FracGeq(score, Frac(40, 100))

\* whether the scan appends a result to matches: exact is the outcome of the
\* equality test, score the stored ratio, index the 0-based position
Keeps(index, exact, score) ==
    IF exact THEN TRUE
    ELSE IF FracGeq(score, FUZZY_MATCH_THRESHOLD) THEN TRUE
    ELSE IF FracGeq(score, RELAXED_MATCH_THRESHOLD) THEN TRUE
    ELSE index = 0 /\ FracGeq(score, TOP_RESULT_THRESHOLD)

\* data["results"] once the loop has written res["_score"] into every record
ScanScores(recs, field, t) ==
    [i \in 1..Len(recs) |-> ("_score" :> ScoreOf(recs[i], field, t)) @@ recs[i]]

\* the list matches once the loop is over; sc is ScanScores(recs, field, t)
ScanMatches(sc, field, t) ==
    SelectSeq([i \in 1..Len(sc) |-> i],
              LAMBDA i : Keeps(i - 1, IsExact(sc[i], field, t), sc[i]["_score"]))

\* the seen_ids loop: the first match carrying an id is the one kept
RECURSIVE UniqueMatches(_, _)
UniqueMatches(ms, sc) ==
    IF ms = <<>> THEN <<>>
    ELSE LET front == UniqueMatches(SubSeq(ms, 1, Len(ms) - 1), sc)
             m == ms[Len(ms)]
         IN  IF \E k \in 1..Len(front) : sc[front[k]].id = sc[m].id
             THEN front
             ELSE Append(front, m)

SortKey(sc, m) == Get(sc[m], "_score", Frac(0, 1))

\* list.sort(key=..., reverse=True): stable, equal keys keep their order
RECURSIVE SortByScore(_, _)
SortByScore(ms, sc) ==
    IF ms = <<>> THEN <<>>
    ELSE LET front == SortByScore(SubSeq(ms, 1, Len(ms) - 1), sc)
             m == ms[Len(ms)]
             p == Cardinality({k \in 1..Len(front) :
                                  FracGeq(SortKey(sc, front[k]), SortKey(sc, m))})
         IN  SubSeq(front, 1, p) \o <<m>> \o SubSeq(front, p + 1, Len(front))

\* mutant: the slice is missing
TopMatchesUncut(ms) == ms

\* unique_matches[:5]
TopMatches(ms) == SubSeq(ms, 1, IF Len(ms) < TOP_MATCHES THEN Len(ms) ELSE TOP_MATCHES)

\* mutant: the sort is missing
RankUnsorted(ms, sc) == TopMatches(UniqueMatches(ms, sc))

\* mutant: the sort runs before the deduplication
RankSortedFirst(ms, sc) == TopMatches(UniqueMatches(SortByScore(ms, sc), sc))

RankMatches(ms, sc) == TopMatches(SortByScore(UniqueMatches(ms, sc), sc))

SearchWith(ep, field, o) ==
    /\ pc = "ready"
    /\ LET body == [results |-> [i \in 1..Len(page) |-> RenderRecord(page[i], ProviderField(ep))]]
           r == MakeRequest(o, body)
       IN  /\ endpoint' = ep
           /\ outcome' = o
           /\ sent' = r.gets
           /\ IF r.raised
              THEN /\ pc' = "raised"
                   /\ UNCHANGED <<scored, matches, returned>>
              ELSE IF IsNone(r.data) \/ Get(r.data, "results", <<>>) = <<>>
              THEN /\ pc' = "returned"
                   /\ returned' = <<>>
                   /\ UNCHANGED <<scored, matches>>
              ELSE /\ pc' = "returned"
                   /\ scored' = ScanScores(r.data.results, field, title)
                   /\ matches' = ScanMatches(scored', field, title)
                   /\ returned' = RankMatches(matches', scored')
    /\ UNCHANGED <<title, page>>

ProviderAppend(names, max) ==
    /\ pc = "ready"
    /\ Len(page) < max
    /\ \E i \in NextIds(page), n \in names :
          page' = Append(page, [id |-> i, named |-> TRUE, text |-> n])
    /\ UNCHANGED <<title, pc, endpoint, outcome, sent, scored, matches, returned>>

ProviderAppendUnnamed(max) ==
    /\ pc = "ready"
    /\ Len(page) < max
    /\ \E i \in NextIds(page) :
          page' = Append(page, [id |-> i, named |-> FALSE, text |-> <<>>])
    /\ UNCHANGED <<title, pc, endpoint, outcome, sent, scored, matches, returned>>

InitSearch ==
    /\ title \in Titles
    /\ page = <<>>
    /\ pc = "ready"
    /\ endpoint = "none"
    /\ outcome = "none"
    /\ sent = 0
    /\ scored = <<>>
    /\ matches = <<>>
    /\ returned = <<>>

NoCall == [op |-> "none"]

InitParse ==
    /\ search = <<>>
    /\ typed = 0
    /\ ret = NoCall

NoPrev == [endpoint |-> "none"]

InitPrev == prev = NoPrev

\* Monday 00:00:00.000000: seconds since the week began, and microseconds
Epoch == [s |-> 0, us |-> 0]

InitTime ==
    /\ clock = Epoch
    /\ cal = NoCall

Init == InitSearch /\ InitParse /\ InitPrev /\ InitTime

\* the key search_movie reads the display name from
SearchMovieField == "title"

\* mutant: search_tv reads the key search_movie reads
SearchTvFieldAsMovie == "title"

\* the key search_tv reads the display name from
SearchTvField == "name"

Provide ==
    /\ ProviderAppend(Names, MaxResults)
    /\ UNCHANGED <<parseVars, prev, timeVars>>

ProvideUnnamed ==
    /\ ProviderAppendUnnamed(MaxResults)
    /\ UNCHANGED <<parseVars, prev, timeVars>>

SearchMovie ==
    /\ \E o \in Outcomes : SearchWith("search/movie", SearchMovieField, o)
    /\ UNCHANGED <<parseVars, prev, timeVars>>

SearchTv ==
    /\ \E o \in Outcomes : SearchWith("search/tv", SearchTvField, o)
    /\ UNCHANGED <<parseVars, prev, timeVars>>

Next == Provide \/ ProvideUnnamed \/ SearchMovie \/ SearchTv

Spec == Init /\ [][Next]_vars

(***************************************************************************)
(* The same machine over long pages of few names: enough results that      *)
(* more than TOP_MATCHES distinct identifiers pass the filter.             *)
(***************************************************************************)
TopProvide ==
    /\ ProviderAppend(TopNames, MaxTopResults)
    /\ UNCHANGED <<parseVars, prev, timeVars>>

TopSearchMovie ==
    /\ SearchWith("search/movie", SearchMovieField, "ok")
    /\ UNCHANGED <<parseVars, prev, timeVars>>

TopSearchTv ==
    /\ SearchWith("search/tv", SearchTvField, "ok")
    /\ UNCHANGED <<parseVars, prev, timeVars>>

NextTop == TopProvide \/ TopSearchMovie \/ TopSearchTv

SpecTop == Init /\ [][NextTop]_vars

(***************************************************************************)
(* Two calls in a row on the same service and the same provider data: the  *)
(* service keeps nothing between calls, so the second call starts afresh   *)
(* and only the caller remembers what the first one returned.              *)
(***************************************************************************)
ReturnedIds == [k \in 1..Len(returned) |-> scored[returned[k]].id]

ReturnedScores == [k \in 1..Len(returned) |-> scored[returned[k]]["_score"]]

SearchAgain ==
    /\ pc = "returned"
    /\ prev = NoPrev
    /\ prev' = [endpoint |-> endpoint, ids |-> ReturnedIds,
                scores |-> ReturnedScores]
    /\ pc' = "ready"
    /\ endpoint' = "none"
    /\ outcome' = "none"
    /\ sent' = 0
    /\ scored' = <<>>
    /\ matches' = <<>>
    /\ returned' = <<>>
    /\ UNCHANGED <<title, page, parseVars, timeVars>>

PairProvide ==
    /\ prev = NoPrev
    /\ ProviderAppend(Names, MaxResults)
    /\ UNCHANGED <<parseVars, prev, timeVars>>

PairProvideUnnamed ==
    /\ prev = NoPrev
    /\ ProviderAppendUnnamed(MaxResults)
    /\ UNCHANGED <<parseVars, prev, timeVars>>

PairSearchMovie ==
    /\ SearchWith("search/movie", SearchMovieField, "ok")
    /\ UNCHANGED <<parseVars, prev, timeVars>>

PairSearchTv ==
    /\ SearchWith("search/tv", SearchTvField, "ok")
    /\ UNCHANGED <<parseVars, prev, timeVars>>

NextPair ==
    \/ PairProvide \/ PairProvideUnnamed
    \/ PairSearchMovie \/ PairSearchTv \/ SearchAgain

SpecPair == Init /\ [][NextPair]_vars

(***************************************************************************)
(* Vocabulary of the claims about the matcher, read off the state alone.   *)
(***************************************************************************)
NameField == IF endpoint = "search/movie" THEN "title" ELSE "name"

Answered == pc = "returned" /\ scored # <<>>

\* provider result i has a name equal to the query title ignoring case
ExactAt(i) == Lower(Get(scored[i], NameField, <<>>)) = Lower(title)

Score(i) == scored[i]["_score"]

Passed(i) == \E k \in 1..Len(matches) : matches[k] = i

\* a provider result that passed the filter and is the first to carry its id
Survivor(i) ==
    /\ Passed(i)
    /\ \A j \in 1..(i - 1) : Passed(j) => scored[j].id # scored[i].id

Survivors == {i \in 1..Len(scored) : Survivor(i)}

\* C1: the returned list has at most 5 entries and no two entries share an id.
C1_AtMostFiveDistinctIds ==
    pc = "returned" =>
        /\ Len(returned) <= 5
        /\ \A k, l \in 1..Len(returned) :
              k # l => scored[returned[k]].id # scored[returned[l]].id

C1_Witness ==
    /\ Answered
    /\ Cardinality(Survivors) = 6
    /\ Len(returned) = 5

\* C2 as stated: whenever some provider result is an exact match, the first
\* returned entry is an exact match with score 1.0.
C2_ExactAlwaysFirst ==
    (Answered /\ \E i \in 1..Len(scored) : ExactAt(i)) =>
        /\ returned # <<>>
        /\ ExactAt(returned[1])
        /\ Score(returned[1]) = One

\* C2 amended: whenever some exact match is not preceded, in provider order,
\* by a result that passed the filter and carries the same id, the first
\* returned entry is an exact match with score 1.0.
C2_ExactFirstUnlessShadowed ==
    (Answered /\ \E i \in 1..Len(scored) : ExactAt(i) /\ Survivor(i)) =>
        /\ returned # <<>>
        /\ ExactAt(returned[1])
        /\ Score(returned[1]) = One

C2_Witness ==
    /\ Answered
    /\ \E i \in 2..Len(scored) :
          /\ ExactAt(i)
          /\ returned[1] = i
          /\ \E j \in 1..(i - 1) : Passed(j) /\ ~ExactAt(j)
          /\ \E j \in 1..Len(scored) : j # i /\ scored[j].id = scored[i].id

\* C3: a result that is not an exact match passes the filter iff its score is
\* >= 0.65, or it is first in provider order and its score is >= 0.40; when
\* every score is below 0.65 and the first is below 0.40 nothing is returned.
C3_FilterRule ==
    Answered =>
        /\ \A i \in 1..Len(scored) :
              ~ExactAt(i) =>
                 (Passed(i) <=> \/ 100 * Score(i).num >= 65 * Score(i).den
                                \/ i = 1 /\ 100 * Score(i).num >= 40 * Score(i).den)
        /\ ( /\ \A i \in 1..Len(scored) : 100 * Score(i).num < 65 * Score(i).den
             /\ 100 * Score(1).num < 40 * Score(1).den )
           => returned = <<>>

C3_Witness ==
    /\ Answered
    /\ Len(scored) >= 3
    /\ ~ExactAt(1) /\ Passed(1) /\ ~FracGeq(Score(1), Frac(65, 100))
    /\ \E i \in 2..Len(scored) :
          ~Passed(i) /\ FracEq(Score(i), Score(1))
    /\ \E i \in 2..Len(scored) :
          ~ExactAt(i) /\ Passed(i)

\* C9: a search call issues at most one request, never raises, and returns
\* the empty list whenever the request failed.
C9_OneRequestFailuresAbsorbed ==
    pc # "ready" =>
        /\ sent <= 1
        /\ pc = "returned"
        /\ outcome # "ok" => returned = <<>>

C9_Witness ==
    /\ pc = "returned"
    /\ outcome = "error"
    /\ sent = 1
    /\ Len(page) >= 2
    /\ returned = <<>>

\* C10: the returned list is ordered by score, non-increasing; equal scores
\* keep provider order; every entry is the first filtered result carrying
\* its id; and the list is the min(5, number of survivors) best survivors.
C10_RankedSurvivors ==
    pc = "returned" =>
        /\ \A k, l \in 1..Len(returned) :
              k < l =>
                 /\ FracGeq(Score(returned[k]), Score(returned[l]))
                 /\ FracEq(Score(returned[k]), Score(returned[l]))
                       => returned[k] < returned[l]
        /\ \A k \in 1..Len(returned) : returned[k] \in Survivors
        /\ Len(returned) = (IF Cardinality(Survivors) < 5
                            THEN Cardinality(Survivors) ELSE 5)
        /\ \A s \in Survivors :
              (\A k \in 1..Len(returned) : returned[k] # s) =>
                 \A k \in 1..Len(returned) :
                    /\ FracGeq(Score(returned[k]), Score(s))
                    /\ FracEq(Score(returned[k]), Score(s)) => returned[k] < s

C10_Witness ==
    /\ Answered
    /\ Len(returned) = 5
    /\ Cardinality(Survivors) = 6
    /\ returned[1] > returned[2]
    /\ \E k \in 1..4 : FracEq(Score(returned[k]), Score(returned[k + 1]))
    /\ \E s \in Survivors : \A k \in 1..5 : returned[k] # s

MaxYearPieces == 5

Digits == <<"0", "1", "2", "3", "4", "5", "6", "7", "8", "9">>

IsDigit(c) == \E k \in 1..10 : Digits[k] = c

DigitVal(c) == (CHOOSE k \in 1..10 : Digits[k] = c) - 1

\* \s
IsSpace(c) == c \in {" ", "\t", "\n"}

LowerLetters == {UpperToLower[u] : u \in DOMAIN UpperToLower}

IsLetter(c) == LowerChar(c) \in LowerLetters

\* \w
IsWordChar(c) == IsLetter(c) \/ IsDigit(c) \/ c = "_"

AllSpace(s, lo, hi) == \A k \in lo..hi : IsSpace(s[k])

\* str.strip()
Strip(s) ==
    LET keep == {k \in 1..Len(s) : ~IsSpace(s[k])}
    IN  IF keep = {} THEN <<>>
        ELSE SubSeq(s, CHOOSE k \in keep : \A o \in keep : k <= o,
                       CHOOSE k \in keep : \A o \in keep : o <= k)

\* int() of a run of decimal digits
RECURSIVE ToInt(_)
ToInt(ds) ==
    IF ds = <<>> THEN 0
    ELSE 10 * ToInt(SubSeq(ds, 1, Len(ds) - 1)) + DigitVal(ds[Len(ds)])

NoYear == -1

\* truth value of an Optional[int]
Truthy(year) == year # NoYear /\ year # 0

\* mutant: the pattern lost its end anchor
YearPatternUnanchored(s, i, p) ==
    /\ i <= p
    /\ AllSpace(s, i, p - 1)
    /\ p + 5 <= Len(s)
    /\ s[p] = "("
    /\ \A k \in 1..4 : IsDigit(s[p + k])
    /\ s[p + 5] = ")"

\* r"\s*\((\d{4})\)\s*$" matching from position i with its "(" at p
YearPatternAt(s, i, p) ==
    /\ i <= p
    /\ AllSpace(s, i, p - 1)
    /\ p + 5 <= Len(s)
    /\ s[p] = "("
    /\ \A k \in 1..4 : IsDigit(s[p + k])
    /\ s[p + 5] = ")"
    /\ AllSpace(s, p + 6, Len(s))

\* re.search: of the matches ms, each <<start, p>>, the one that starts
\* leftmost, or <<>> for no match
SearchLeftmost(ms) ==
    IF ms = {} THEN <<>>
    ELSE CHOOSE m \in ms : \A o \in ms : m[1] <= o[1]

Positions(s) == (1..Len(s)) \X (1..Len(s))

ParseMovieWithYear(movie_title) ==
    LET match == SearchLeftmost({m \in Positions(movie_title) :
                                    YearPatternAt(movie_title, m[1], m[2])})
    IN  IF match # <<>>
        THEN [title |-> Strip(SubSeq(movie_title, 1, match[1] - 1)),
              year |-> ToInt(SubSeq(movie_title, match[2] + 1, match[2] + 4))]
        ELSE [title |-> Strip(movie_title), year |-> NoYear]

\* r"\s+(?P<year>(19|20)\d{2})\s*$" matching from i with the year at p
TrailingYearPatternAt(s, i, p) ==
    /\ i < p
    /\ AllSpace(s, i, p - 1)
    /\ p + 3 <= Len(s)
    /\ <<s[p], s[p + 1]>> \in {<<"1", "9">>, <<"2", "0">>}
    /\ IsDigit(s[p + 2])
    /\ IsDigit(s[p + 3])
    /\ AllSpace(s, p + 4, Len(s))

ParseTitleWithYear(text) ==
    LET first == ParseMovieWithYear(text)
        match == SearchLeftmost({m \in Positions(text) :
                                    TrailingYearPatternAt(text, m[1], m[2])})
    IN  IF Truthy(first.year) THEN first
        ELSE IF match # <<>>
        THEN [title |-> Strip(SubSeq(text, 1, match[1] - 1)),
              year |-> ToInt(SubSeq(text, match[2], match[2] + 3))]
        ELSE [title |-> Strip(text), year |-> NoYear]

(***************************************************************************)
(* The text arguments: put together from a few pieces, then handed to one  *)
(* of the functions.                                                       *)
(***************************************************************************)
YearPieces == {Chars(" "), Chars("x"), Chars("("), Chars(")"), Chars("19"),
               Chars("1999"), Chars("0000")}

Type(pieces, max) ==
    /\ ret = NoCall
    /\ typed < max
    /\ \E w \in pieces : search' = search \o w
    /\ typed' = typed + 1
    /\ UNCHANGED <<ret, title, page, pc, endpoint, outcome, sent, scored,
                   matches, returned, prev, timeVars>>

Call(op, val) ==
    /\ ret = NoCall
    /\ ret' = [op |-> op, val |-> val]
    /\ UNCHANGED <<search, typed, title, page, pc, endpoint, outcome, sent,
                   scored, matches, returned, prev, timeVars>>

TypeYearText == Type(YearPieces, MaxYearPieces)

CallParseMovieWithYear ==
    Call("parse_movie_with_year", ParseMovieWithYear(search))

CallParseTitleWithYear ==
    Call("parse_title_with_year", ParseTitleWithYear(search))

NextYear == TypeYearText \/ CallParseMovieWithYear \/ CallParseTitleWithYear

SpecYear == Init /\ [][NextYear]_vars

\* the text ends with "(dddd)" followed only by whitespace, the "(" at p
EndsWithParenYear(s, p) ==
    /\ p + 5 <= Len(s)
    /\ s[p] = "("
    /\ \A k \in 1..4 : s[p + k] \in {"0", "1", "2", "3", "4", "5", "6", "7", "8", "9"}
    /\ s[p + 5] = ")"
    /\ \A k \in (p + 6)..Len(s) : s[k] \in {" ", "\t", "\n"}

ParenYearValue(s, p) ==
    1000 * DigitVal(s[p + 1]) + 100 * DigitVal(s[p + 2])
        + 10 * DigitVal(s[p + 3]) + DigitVal(s[p + 4])

\* C7: parse_movie_with_year returns (stripped text before the suffix, the
\* four digits as an integer) when the text ends with a parenthesized group
\* of exactly four digits optionally surrounded by whitespace, and
\* (stripped text, None) otherwise.
C7_ParenYearSplit ==
    ret.op = "parse_movie_with_year" =>
        IF \E p \in 1..Len(search) : EndsWithParenYear(search, p)
        THEN \A p \in 1..Len(search) :
                EndsWithParenYear(search, p) =>
                    /\ ret.val.title = Strip(SubSeq(search, 1, p - 1))
                    /\ ret.val.year = ParenYearValue(search, p)
        ELSE ret.val = [title |-> Strip(search), year |-> NoYear]

C7_Witness ==
    /\ ret.op = "parse_movie_with_year"
    /\ search = Chars("x (1999)")
    /\ ret.val = [title |-> Chars("x"), year |-> 1999]

\* C8: parse_title_with_year returns, for every text that ends in a
\* parenthesized four-digit group, the pair parse_movie_with_year returns
\* (any four-digit value); the bare trailing year is used only when no
\* parenthesized year is found; when neither matches it returns
\* (stripped text, None).
C8_ParenthesizedFirst ==
    ret.op = "parse_title_with_year" =>
        IF \E p \in 1..Len(search) : EndsWithParenYear(search, p)
        THEN \A p \in 1..Len(search) :
                EndsWithParenYear(search, p) =>
                    /\ ret.val.title = Strip(SubSeq(search, 1, p - 1))
                    /\ ret.val.year = ParenYearValue(search, p)
        ELSE IF \E i, p \in 1..Len(search) : TrailingYearPatternAt(search, i, p)
        THEN ret.val.year \in 1900..2099
        ELSE ret.val = [title |-> Strip(search), year |-> NoYear]

(***************************************************************************)
(* Regular expressions of is_specific_title_query and detect_user_intent.  *)
(* A pattern is a set of alternatives; an alternative is a sequence of     *)
(* literal parts separated by \s+, with or without \b at either end.       *)
(***************************************************************************)
MaxSpecificPieces == 4

MaxIntentPieces == 4

\* \b between s[i-1] and s[i]
Boundary(s, i) ==
    (i - 1 \in 1..Len(s) /\ IsWordChar(s[i - 1])) # (i \in 1..Len(s) /\ IsWordChar(s[i]))

LitAt(s, i, w) ==
    /\ i + Len(w) - 1 <= Len(s)
    /\ \A k \in 1..Len(w) : s[i + k - 1] = w[k]

\* positions right after a match of parts that starts at i
RECURSIVE EndsAfter(_, _, _)
EndsAfter(s, i, parts) ==
    IF ~LitAt(s, i, Head(parts)) THEN {}
    ELSE LET e == i + Len(Head(parts))
         IN  IF Len(parts) = 1 THEN {e}
             ELSE UNION {EndsAfter(s, n, Tail(parts)) :
                            n \in {n \in (e + 1)..(Len(s) + 1) : AllSpace(s, e, n - 1)}}

Alt(parts, left, right) == [parts |-> parts, left |-> left, right |-> right]

\* \bw\b
Word(w) == Alt(<<Chars(w)>>, TRUE, TRUE)

\* \bw1\s+w2\b
Words(w1, w2) == Alt(<<Chars(w1), Chars(w2)>>, TRUE, TRUE)

\* re.search(pattern, s)
Found(s, pattern) ==
    \E alt \in pattern : \E i \in 1..Len(s) :
        /\ \E e \in EndsAfter(s, i, alt.parts) : alt.right => Boundary(s, e)
        /\ alt.left => Boundary(s, i)

\* the class ["\u201c\u201d\u2018\u2019]: the straight double quote and the four curly
\* quotes, each curly quote one character under the name given here
QuoteChars == {"\"", "LDQUO", "RDQUO", "LSQUO", "RSQUO"}

\* re.search(r"\((19|20)\d{2}\)", s)
HasParenYear(s) ==
    \E i \in 1..Len(s) :
        /\ i + 5 <= Len(s)
        /\ s[i] = "("
        /\ <<s[i + 1], s[i + 2]>> \in {<<"1", "9">>, <<"2", "0">>}
        /\ IsDigit(s[i + 3])
        /\ IsDigit(s[i + 4])
        /\ s[i + 5] = ")"

\* re.search(r"\b(19|20)\d{2}\b", s)
HasBareYear(s) ==
    \E i \in 1..Len(s) :
        /\ i + 3 <= Len(s)
        /\ Boundary(s, i)
        /\ <<s[i], s[i + 1]>> \in {<<"1", "9">>, <<"2", "0">>}
        /\ IsDigit(s[i + 2])
        /\ IsDigit(s[i + 3])
        /\ Boundary(s, i + 4)

\* r"\b2000s|1990s|1980s|1970s|1960s|1950s\b": the alternation binds last,
\* so \b belongs to the first and to the last alternative only
DecadePattern ==
    {Alt(<<Chars("2000s")>>, TRUE, FALSE), Alt(<<Chars("1990s")>>, FALSE, FALSE),
     Alt(<<Chars("1980s")>>, FALSE, FALSE), Alt(<<Chars("1970s")>>, FALSE, FALSE),
     Alt(<<Chars("1960s")>>, FALSE, FALSE), Alt(<<Chars("1950s")>>, FALSE, TRUE)}

discovery_patterns ==
    << {Word("top")}, {Word("best")}, {Word("popular")}, {Word("trending")},
       {Word("recommend"), Word("recommendation"), Word("recommendations"),
        Word("recommended"), Word("recommending")},
       {Word("suggest"), Word("suggestion"), Word("suggestions"),
        Word("suggested"), Word("suggesting")},
       {Word("list")}, {Word("ranked")}, {Word("collection")}, {Word("theme")},
       {Word("movie"), Word("movies"), Word("film"), Word("films"),
        Word("show"), Word("shows"), Word("series"), Word("tv")},
       {Word("similar to"), Word("like")},
       DecadePattern >>

\* len(s.split())
WordCount(s) ==
    Cardinality({k \in 1..Len(s) : ~IsSpace(s[k]) /\ (k = 1 \/ IsSpace(s[k - 1]))})

IsSpecificTitleQuery(text) ==
    IF text = <<>> THEN FALSE
    ELSE LET search_lower == Strip(Lower(text))
         IN  IF \E i \in 1..Len(text) : text[i] \in QuoteChars THEN TRUE
             ELSE IF HasParenYear(text) THEN TRUE
             ELSE IF \E k \in 1..Len(discovery_patterns) :
                        Found(search_lower, discovery_patterns[k]) THEN FALSE
             ELSE IF HasBareYear(search_lower) THEN TRUE
             ELSE WordCount(search_lower) <= 6

SpecificPieces == {Chars(" "), Chars("\""), Chars("("), Chars(")"), Chars("1990"),
                   Chars("s"), Chars("Best"), Chars("x"), Chars("a b c d e f")}

TypeSpecificText == Type(SpecificPieces, MaxSpecificPieces)

CallIsSpecificTitleQuery ==
    Call("is_specific_title_query", IsSpecificTitleQuery(search))

NextSpecific == TypeSpecificText \/ CallIsSpecificTitleQuery

SpecSpecific == Init /\ [][NextSpecific]_vars

\* the discovery keywords, each taken as a whole word
DiscoveryWords ==
    {"top", "best", "popular", "trending", "recommend", "recommendation",
     "recommendations", "recommended", "recommending", "suggest", "suggestion",
     "suggestions", "suggested", "suggesting", "list", "ranked", "collection",
     "theme", "movie", "movies", "film", "films", "show", "shows", "series",
     "tv", "similar to", "like", "1950s", "1960s", "1970s", "1980s", "1990s",
     "2000s"}

DiscoveryPhrases == {Word(w) : w \in DiscoveryWords}

HasDiscoveryWord(s) == Found(s, DiscoveryPhrases)

\* C4: a quotation mark or a parenthesized 19xx/20xx year gives true; otherwise
\* a discovery keyword present as a whole word gives false; only otherwise
\* a bare 19xx/20xx year gives true; only after that the word count decides
\* (true iff at most 6 words).
C4_RuleOrder ==
    (ret.op = "is_specific_title_query" /\ search # <<>>) =>
        ret.val =
            LET low == Strip(Lower(search))
            IN  IF (\E i \in 1..Len(search) : search[i] \in QuoteChars)
                   \/ HasParenYear(search) THEN TRUE
                ELSE IF HasDiscoveryWord(low) THEN FALSE
                ELSE IF HasBareYear(low) THEN TRUE
                ELSE WordCount(low) <= 6

\* C5: is_specific_title_query returns false for every empty and every blank
\* (whitespace only) text.
C5_BlankNotSpecific ==
    (ret.op = "is_specific_title_query" /\ \A k \in 1..Len(search) : IsSpace(search[k]))
        => ret.val = FALSE

(***************************************************************************)
(* detect_user_intent                                                      *)
(***************************************************************************)
MOVIE == "movie"

SERIES == "series"

UNKNOWN == "None"

movie_patterns ==
    << {Word("movie"), Word("movies")}, {Word("film"), Word("films")},
       {Word("cinema")}, {Word("flick"), Word("flicks")},
       {Word("motion picture"), Word("motion pictures")},
       {Word("feature film"), Word("feature films")},
       {Word("blockbuster"), Word("blockbusters")} >>

BareShows == {Word("show"), Word("shows")}

series_patterns ==
    << {Words("tv", "show"), Words("tv", "shows")},
       {Words("television", "show"), Words("television", "shows")},
       {Word("television")}, {Word("series")}, BareShows,
       {Words("tv", "series")}, {Words("television", "series")},
       {Word("episode"), Word("episodes")}, {Word("season"), Word("seasons")},
       {Word("sitcom"), Word("sitcoms")},
       {Words("drama", "series"), Words("dramas", "series")},
       {Word("miniseries")}, {Words("documentary", "series")} >>

\* r"\b(?:movie|film|cinema)\s+shows?\b"
MovieShows ==
    {Words("movie", "show"), Words("movie", "shows"), Words("film", "show"),
     Words("film", "shows"), Words("cinema", "show"), Words("cinema", "shows")}

\* r"\bshow\s+me\b"
ShowMe == {Words("show", "me")}

\* r"\b(?:and|or)\b"
AndOr == {Word("and"), Word("or")}

\* mutant: the bare "show" pattern is counted like every other pattern
SeriesPatternCountsPlain(s, k) == Found(s, series_patterns[k])

\* whether the loop over series_patterns counts pattern k
SeriesPatternCounts(s, k) ==
    IF series_patterns[k] = BareShows
    THEN Found(s, BareShows) /\ ~Found(s, MovieShows) /\ ~Found(s, ShowMe)
    ELSE Found(s, series_patterns[k])

DetectUserIntent(text) ==
    IF text = <<>> THEN UNKNOWN
    ELSE LET search_lower == Lower(text)
             movie_matches ==
                 Cardinality({k \in 1..Len(movie_patterns) :
                                 Found(search_lower, movie_patterns[k])})
             series_matches ==
                 Cardinality({k \in 1..Len(series_patterns) :
                                 SeriesPatternCounts(search_lower, k)})
             has_mixed_content ==
                 Found(search_lower, AndOr) /\ movie_matches > 0 /\ series_matches > 0
         IN  IF has_mixed_content THEN UNKNOWN
             ELSE IF movie_matches > 0 /\ series_matches = 0 THEN MOVIE
             ELSE IF series_matches > 0 /\ movie_matches = 0 THEN SERIES
             ELSE UNKNOWN

IntentPieces == {Chars("show me "), Chars("show"), Chars(" "), Chars("movie"),
                 Chars("s"), Chars("TV"), Chars(" and "), Chars("a ")}

TypeIntentText == Type(IntentPieces, MaxIntentPieces)

CallDetectUserIntent == Call("detect_user_intent", DetectUserIntent(search))

NextIntent == TypeIntentText \/ CallDetectUserIntent

SpecIntent == Init /\ [][NextIntent]_vars

MovieVocabulary ==
    {"movie", "movies", "film", "films", "cinema", "flick", "flicks",
     "motion picture", "motion pictures", "feature film", "feature films",
     "blockbuster", "blockbusters"}

\* series vocabulary other than the bare show(s): <<w>> is a word, <<w1, w2>>
\* two words separated by whitespace
SeriesVocabulary ==
    {<<"tv", "show">>, <<"tv", "shows">>, <<"television", "show">>,
     <<"television", "shows">>, <<"television">>, <<"series">>,
     <<"tv", "series">>, <<"television", "series">>, <<"episode">>,
     <<"episodes">>, <<"season">>, <<"seasons">>, <<"sitcom">>, <<"sitcoms">>,
     <<"drama", "series">>, <<"dramas", "series">>, <<"miniseries">>,
     <<"documentary", "series">>}

Phrases(vocabulary) ==
    {Alt([k \in 1..Len(ws) |-> Chars(ws[k])], TRUE, TRUE) : ws \in vocabulary}

MoviePhrases == Phrases({<<w>> : w \in MovieVocabulary})

SeriesPhrases == Phrases(SeriesVocabulary)

ShowPhrases == Phrases({<<"show">>, <<"shows">>})

ShowMePhrases == Phrases({<<"show", "me">>})

MovieShowPhrases ==
    Phrases({<<m, w>> : m \in {"movie", "film", "cinema"}, w \in {"show", "shows"}})

MovieWordMatches(s) == Found(s, MoviePhrases)

SeriesWordCounts(s) ==
    \/ Found(s, SeriesPhrases)
    \/ /\ Found(s, ShowPhrases)
       /\ ~Found(s, ShowMePhrases)
       /\ ~Found(s, MovieShowPhrases)

\* C6: detect_user_intent returns MOVIE exactly when a movie-vocabulary word
\* matches and no series-vocabulary word counts, SERIES exactly when a
\* series-vocabulary word counts and no movie-vocabulary word matches, and
\* UNKNOWN in every other case; "show me a movie" is MOVIE.
C6_IntentByVocabulary ==
    ret.op = "detect_user_intent" =>
        LET low == Lower(search)
            movie == MovieWordMatches(low)
            series == SeriesWordCounts(low)
        IN  /\ ret.val = MOVIE <=> (movie /\ ~series)
            /\ ret.val = SERIES <=> (series /\ ~movie)
            /\ ret.val \in {MOVIE, SERIES, UNKNOWN}
            /\ search = <<>> => ret.val = UNKNOWN
            /\ search = Chars("show me a movie") => ret.val = MOVIE

C6_Witness ==
    /\ ret.op = "detect_user_intent"
    /\ search = Chars("show me a movie")
    /\ ret.val = MOVIE

(***************************************************************************)
(* app/services/__init__.py.  An instant of UTC time is a number of whole  *)
(* seconds since Monday 00:00:00 of the week the clock starts in, and the  *)
(* microseconds of the datetime beside it.                                 *)
(***************************************************************************)
EdgeSeconds == 2

SecondsPerDay == 86400

SecondsPerWeek == 604800

\* datetime.weekday() of a Tuesday
TUESDAY == 1

\* times of day: every full hour, and the seconds around midnight
SecondsOfDay ==
    {h * 3600 : h \in 0..23} \cup (0..EdgeSeconds)
        \cup ((SecondsPerDay - 1 - EdgeSeconds)..(SecondsPerDay - 1))

Micros == {0, 1, 999999}

Instants ==
    {[s |-> d * SecondsPerDay + t, us |-> u] :
        d \in 0..6, t \in SecondsOfDay, u \in Micros}

\* time that passes between two reads of the clock
Elapsed == {[s |-> 0, us |-> 0], [s |-> 0, us |-> 1],
            [s |-> 1, us |-> 0], [s |-> 1, us |-> 1]}

\* datetime + timedelta
Plus(t, d) ==
    [s |-> t.s + d.s + (t.us + d.us) \div 1000000,
     us |-> (t.us + d.us) % 1000000]

\* datetime < datetime
Before(a, b) == a.s < b.s \/ (a.s = b.s /\ a.us < b.us)

\* datetime.weekday(): Monday is 0
Weekday(t) == (t.s \div SecondsPerDay) % 7

\* datetime.replace(hour=0, minute=0, second=0, microsecond=0)
Midnight(t) == [s |-> (t.s \div SecondsPerDay) * SecondsPerDay, us |-> 0]

\* mutant: a Tuesday counts as not yet happened
DaysAheadSameDay(today) ==
    LET days_ahead == TUESDAY - Weekday(today)
    IN  IF days_ahead < 0 THEN days_ahead + 7 ELSE days_ahead

DaysAhead(today) ==
    LET days_ahead == TUESDAY - Weekday(today)
    IN  IF days_ahead <= 0 THEN days_ahead + 7 ELSE days_ahead

GetNextTuesday(today) ==
    Midnight(Plus(today, [s |-> DaysAhead(today) * SecondsPerDay, us |-> 0]))

\* int((a - b).total_seconds()): int() drops the fraction, towards zero
IntTotalSeconds(a, b) ==
    LET whole == a.s - b.s
        micro == a.us - b.us
    IN  IF micro > 0 /\ whole < 0 THEN whole + 1
        ELSE IF micro < 0 /\ whole > 0 THEN whole - 1
        ELSE whole

\* today is the clock as get_next_tuesday reads it, now the second read
GetTuesdayToTuesdayTtl(today, now) ==
    IntTotalSeconds(GetNextTuesday(today), now)

InitTuesday ==
    /\ InitSearch /\ InitParse /\ InitPrev
    /\ clock \in Instants
    /\ cal = NoCall

CallGetNextTuesday ==
    /\ cal = NoCall
    /\ cal' = [op |-> "get_next_tuesday", at |-> clock,
               next |-> GetNextTuesday(clock)]
    /\ UNCHANGED <<clock, title, page, pc, endpoint, outcome, sent, scored,
                   matches, returned, parseVars, prev>>

CallGetTuesdayToTuesdayTtl ==
    /\ cal = NoCall
    /\ \E d \in Elapsed :
          /\ clock' = Plus(clock, d)
          /\ cal' = [op |-> "get_tuesday_to_tuesday_ttl", at |-> clock,
                     next |-> GetNextTuesday(clock), now |-> clock',
                     val |-> GetTuesdayToTuesdayTtl(clock, clock')]
    /\ UNCHANGED <<title, page, pc, endpoint, outcome, sent, scored,
                   matches, returned, parseVars, prev>>

NextTuesday == CallGetNextTuesday \/ CallGetTuesdayToTuesdayTtl

SpecTuesday == InitTuesday /\ [][NextTuesday]_vars

\* every Tuesday 00:00:00 from the week before the clock starts on
TuesdayMidnights ==
    {[s |-> TUESDAY * SecondsPerDay + w * SecondsPerWeek, us |-> 0] :
        w \in (-1)..2}

\* C12: at every instant get_next_tuesday returns the earliest Tuesday
\* 00:00:00 strictly later than that instant, never more than 7 days ahead;
\* and get_tuesday_to_tuesday_ttl, when its second clock read gives that same
\* instant, returns a whole number of seconds from 0 to 604800.
C12_EarliestLaterTuesday ==
    /\ cal # NoCall =>
          /\ cal.next \in TuesdayMidnights
          /\ Before(cal.at, cal.next)
          /\ \A m \in TuesdayMidnights : Before(cal.at, m) => ~Before(m, cal.next)
          /\ ~Before(Plus(cal.at, [s |-> 7 * SecondsPerDay, us |-> 0]), cal.next)
    /\ (cal.op = "get_tuesday_to_tuesday_ttl" /\ cal.now = cal.at) =>
          cal.val \in 0..604800

C12_Witness ==
    /\ cal.op = "get_tuesday_to_tuesday_ttl"
    /\ cal.at = [s |-> TUESDAY * SecondsPerDay, us |-> 0]
    /\ cal.now = cal.at
    /\ cal.next = [s |-> TUESDAY * SecondsPerDay + SecondsPerWeek, us |-> 0]
    /\ cal.val = 604800

====
